---- MODULE Spec2Model ----
(***************************************************************************)
(* Model of the page-walking scraper GOOD/scrape_v3.py: the pagination     *)
(* loop of main(), the dedup ledger (seen_item_ids, seen_detail_urls), the *)
(* row counters and the two sinks (CSV writer, optional XLSX worksheet).   *)
(*                                                                         *)
(* Text is modelled as a sequence of tokens.  A token is one character     *)
(* ("A", "1", " ") or, inside a raw URL query value, one escape ("%20",    *)
(* "+").  An optional value (Python None or a value) is a sequence of      *)
(* length 0 or 1: None == <<>>, Some(x) == <<x>>.                          *)
(*                                                                         *)
(* A URL is the 5-tuple urlsplit() yields, as a record                     *)
(*   [scheme, netloc, path, query, fragment]                               *)
(* whose query is the raw query string cut at "&" and "=": a sequence of   *)
(* pairs [k |-> key, v |-> raw value].  Keys, schemes, hosts, paths and    *)
(* fragments are plain strings without escapes; paths are empty or         *)
(* absolute without dot segments; ";params" are not used.                  *)
(*                                                                         *)
(* Five specifications share the variables:                                *)
(*   Spec              main() of GOOD/scrape_v3.py, one run;               *)
(*   SpecFair          the same loop on the paging runs, every step that   *)
(*                     can be taken is eventually taken;                   *)
(*   SpecUnit          clean_price, scrape_page and the title decision of  *)
(*                     Viewer_Translate.load_table, one call per step;     *)
(*   SpecViewerFaster  the window of Viewer_Faster.py under the Tk main    *)
(*                     loop;                                               *)
(*   SpecViewer        the window of GOOD/Viewer.py under the Tk main      *)
(*                     loop.                                               *)
(* Each leaves the variables of the others at their initial values.        *)
(***************************************************************************)
EXTENDS Integers, Sequences, FiniteSets, TLC

None == <<>>
Some(x) == <<x>>
IsNone(o) == o = <<>>
IsSome(o) == o # <<>>
Val(o) == o[1]

(***************************************************************************)
(* Bounds of the model.                                                    *)
(***************************************************************************)
\* at most this many listing blocks on one fetched page
MaxBlocks == 3
\* the loop is cut after this many calls of scrape_page
MaxFetches == 4

\* thumbnail size in pixels
IMG_PX == 160

(***************************************************************************)
(* Text helpers.                                                           *)
(***************************************************************************)
Digits == <<"0", "1", "2", "3", "4", "5", "6", "7", "8", "9">>

IsDigit(c) == \E i \in 1..10 : Digits[i] = c

DigitVal(c) == (CHOOSE i \in 1..10 : Digits[i] = c) - 1

\* str.strip(): leading and trailing whitespace removed
RECURSIVE LStrip(_)
LStrip(s) == IF s # <<>> /\ Head(s) = " " THEN LStrip(Tail(s)) ELSE s

RECURSIVE RStrip(_)
RStrip(s) ==
    IF s # <<>> /\ s[Len(s)] = " " THEN RStrip(SubSeq(s, 1, Len(s) - 1)) ELSE s

Strip(s) == LStrip(RStrip(s))

\* str(n) for n >= 0
RECURSIVE IntToStr(_)
IntToStr(n) ==
    IF n < 10 THEN <<Digits[n + 1]>>
    ELSE Append(IntToStr(n \div 10), Digits[(n % 10) + 1])

\* int(s) for text made of digits with surrounding whitespace; None stands
\* for the ValueError raised on other text (a sign or "_", which int() also
\* reads, does not occur in the inputs of the model)
RECURSIVE DigitsToInt(_)
DigitsToInt(s) ==
    IF s = <<>> THEN 0
    ELSE 10 * DigitsToInt(SubSeq(s, 1, Len(s) - 1)) + DigitVal(s[Len(s)])

ParseInt(s) ==
    LET t == Strip(s)
    IN  IF t # <<>> /\ \A i \in 1..Len(t) : IsDigit(t[i])
        THEN Some(DigitsToInt(t))
        ELSE None

(***************************************************************************)
(* urllib.parse: parse_qs, urlencode(doseq=True), urljoin.                 *)
(***************************************************************************)
\* unquote() after "+" was replaced by a space, token by token
UnquoteTok(t) == IF t = "%20" \/ t = "+" THEN " " ELSE t

UnquotePlus(v) == [i \in 1..Len(v) |-> UnquoteTok(v[i])]

\* quote_plus(), character by character
QuoteTok(c) == IF c = " " THEN "+" ELSE c

QuotePlus(v) == [i \in 1..Len(v) |-> QuoteTok(v[i])]

\* position of key k in the ordered dict d (a sequence of [k, vs]), 0 if absent
DictPos(d, k) ==
    IF \E i \in 1..Len(d) : d[i].k = k
    THEN CHOOSE i \in 1..Len(d) : d[i].k = k
    ELSE 0

\* d.get(k, default)
DictGet(d, k, default) ==
    IF DictPos(d, k) = 0 THEN default ELSE d[DictPos(d, k)].vs

\* d[k] = vs: an existing key keeps its position, a new key goes last
DictSet(d, k, vs) ==
    IF DictPos(d, k) = 0
    THEN Append(d, [k |-> k, vs |-> vs])
    ELSE [d EXCEPT ![DictPos(d, k)].vs = vs]

\* parse_qs(query): pairs with a blank value are dropped, values are
\* decoded, and the values of one key are collected in a list under the
\* key's first occurrence; the dict keeps insertion order
RECURSIVE ParseQsInto(_, _)
ParseQsInto(d, query) ==
    IF query = <<>> THEN d
    ELSE LET p == Head(query)
             val == UnquotePlus(p.v)
         IN  IF p.v = <<>> THEN ParseQsInto(d, Tail(query))
             ELSE ParseQsInto(
                      DictSet(d, p.k, Append(DictGet(d, p.k, <<>>), val)),
                      Tail(query))

parse_qs(query) == ParseQsInto(<<>>, query)

\* urlencode(d, doseq=True): one k=v pair per value, in the dict's order
RECURSIVE urlencode(_)
urlencode(d) ==
    IF d = <<>> THEN <<>>
    ELSE [i \in 1..Len(Head(d).vs) |->
              [k |-> Head(d).k, v |-> QuotePlus(Head(d).vs[i])]]
         \o urlencode(Tail(d))

\* urljoin(base, url) for a base and a reference of the shapes above
urljoin(base, url) ==
    IF url.scheme # "" /\ url.scheme # base.scheme THEN url
    ELSE IF url.netloc # ""
    THEN [url EXCEPT !.scheme = base.scheme]
    ELSE IF url.path = ""
    THEN [scheme |-> base.scheme, netloc |-> base.netloc, path |-> base.path,
          query |-> IF url.query = <<>> THEN base.query ELSE url.query,
          fragment |-> url.fragment]
    ELSE [scheme |-> base.scheme, netloc |-> base.netloc, path |-> url.path,
          query |-> url.query, fragment |-> url.fragment]

(***************************************************************************)
(* Helpers of scrape_v3.py.                                                *)
(***************************************************************************)
set_page_param(url, page) ==
    [url EXCEPT !.query =
        urlencode(DictSet(parse_qs(url.query), "page", <<IntToStr(page)>>))]

\* href is an optional reference; the result is the optional first "id" value
extract_item_id(href) ==
    IF IsNone(href) THEN None
    ELSE LET q == parse_qs(Val(href).query)
         IN  IF DictPos(q, "id") = 0 THEN None
             ELSE Some(DictGet(q, "id", <<>>)[1])

\* as the code computes it: parse_qs keeps first-occurrence order and
\* urlencode writes the dict in that order
normalize_detail_url(u) ==
    IF IsNone(u) THEN None
    ELSE LET s == Val(u)
         IN  Some([scheme |-> s.scheme, netloc |-> s.netloc, path |-> s.path,
                   query |-> urlencode(parse_qs(s.query)), fragment |-> ""])

\* clean_price that parses an empty remainder as 0
clean_price_EmptyIsZero(text) ==
    IF IsNone(text) \/ Val(text) = <<>> THEN None
    ELSE Some(DigitsToInt(SelectSeq(Val(text), IsDigit)))

\* digits-only extraction; None when the text is absent, empty or digitless
clean_price(text) ==
    IF IsNone(text) \/ Val(text) = <<>> THEN None
    ELSE LET digits == SelectSeq(Val(text), IsDigit)
         IN  IF digits # <<>> THEN Some(DigitsToInt(digits)) ELSE None

\* Python truth value of an optional string / optional integer
TruthyStr(o) == IsSome(o) /\ Val(o) # ""
TruthyInt(o) == IsSome(o) /\ Val(o) # 0

\* one div.list_item_block -> the candidate dict built from it
BlockItem(block, page_url) ==
    [item_id     |-> extract_item_id(block.href),
     title       |-> block.title,
     price_jpy   |-> clean_price(block.price_text),
     buyout_jpy  |-> clean_price(block.buyout_text),
     detail_url  |-> IF IsSome(block.href)
                     THEN Some(urljoin(page_url, Val(block.href))) ELSE None,
     image_url   |-> IF IsSome(block.img_src)
                     THEN Some(urljoin(page_url, Val(block.img_src))) ELSE None,
     source_page |-> page_url]

\* the test of line 91
KeepItem(it) ==
    \/ TruthyStr(it.title)
    \/ TruthyInt(it.price_jpy)
    \/ TruthyInt(it.buyout_jpy)
    \/ IsSome(it.detail_url)

\* scrape_page on a page whose markup parsed into the blocks `blocks`
scrape_page(blocks, page_url) ==
    SelectSeq([i \in 1..Len(blocks) |-> BlockItem(blocks[i], page_url)], KeepItem)

(***************************************************************************)
(* The dedup ledger of main (lines 206-226).                               *)
(***************************************************************************)
\* RowIid with the strip() forgotten
RowIid_NoStrip(row) ==
    IF IsSome(row.item_id) /\ Val(row.item_id) # <<>> THEN row.item_id ELSE None

\* iid = (row.get("item_id") or "").strip() or None
RowIid(row) ==
    LET t == Strip(IF IsSome(row.item_id) THEN Val(row.item_id) ELSE <<>>)
    IN  IF t = <<>> THEN None ELSE Some(t)

RowNormUrl(row) == normalize_detail_url(row.detail_url)

\* IsDuplicate that also rejects a row with no key at all
IsDuplicate_SkipKeyless(iid, norm_url, ids, urls) ==
    \/ IsSome(iid) /\ Val(iid) \in ids
    \/ IsNone(iid) /\ IsSome(norm_url) /\ Val(norm_url) \in urls
    \/ IsNone(iid) /\ IsNone(norm_url)

\* lines 212-216
IsDuplicate(iid, norm_url, ids, urls) ==
    IF IsSome(iid) /\ Val(iid) \in ids THEN TRUE
    ELSE IF IsNone(iid) /\ IsSome(norm_url) /\ Val(norm_url) \in urls THEN TRUE
    ELSE FALSE

\* MarkSeenIds that forgets the identifiers seen before
MarkSeenIds_Forgetful(iid, norm_url, ids) ==
    IF IsSome(iid) THEN {Val(iid)} ELSE ids

\* lines 223-226, the identifier set after an admission
MarkSeenIds(iid, norm_url, ids) ==
    IF IsSome(iid) THEN ids \cup {Val(iid)} ELSE ids

\* MarkSeenUrls that never registers a URL
MarkSeenUrls_Never(iid, norm_url, urls) == urls

\* MarkSeenUrls with "elif" written as "if": the URL is registered even
\* when the row has an identifier
MarkSeenUrls_Always(iid, norm_url, urls) ==
    IF IsSome(norm_url) THEN urls \cup {Val(norm_url)} ELSE urls

\* lines 223-226, the URL set after an admission
MarkSeenUrls(iid, norm_url, urls) ==
    IF IsSome(iid) THEN urls
    ELSE IF IsSome(norm_url) THEN urls \cup {Val(norm_url)} ELSE urls

(***************************************************************************)
(* The sinks.  A formula cell is kept as the template's name and the cell  *)
(* it references.                                                          *)
(***************************************************************************)
\* ImageFormula referencing the row above
ImageFormula_RowAbove(n) == [f |-> "IMAGE", col |-> "F", row |-> n - 1, px |-> IMG_PX]

\* f'=IF(LEN(F{n}),IMAGE(F{n},"",3,{IMG_PX},{IMG_PX}),"")'
ImageFormula(n) == [f |-> "IMAGE", col |-> "F", row |-> n, px |-> IMG_PX]

\* f'=TRANSLATE(B{n},"ja","en")'
TranslateFormula(n) == [f |-> "TRANSLATE", col |-> "B", row |-> n, px |-> 0]

\* writerow that puts the new line first
writerow_First(rows, row) == <<row>> \o rows

\* writer.writerow(row): one more line at the end of the file
writerow(rows, row) == Append(rows, row)

\* the dict handed to writer.writerow (lines 229-233)
CsvRow(row, n) ==
    [item_id |-> row.item_id, title |-> row.title, price_jpy |-> row.price_jpy,
     buyout_jpy |-> row.buyout_jpy, detail_url |-> row.detail_url,
     image_url |-> row.image_url, source_page |-> row.source_page,
     image_preview |-> ImageFormula(n), title_en |-> TranslateFormula(n)]

\* SheetRow whose formulas take the 0-based row index for the row number
SheetRow_ZeroBased(row, r0) ==
    [at |-> r0, item_id |-> row.item_id, detail_url |-> row.detail_url,
     image_preview |-> ImageFormula(r0), title_en |-> TranslateFormula(r0)]

\* the cells written to the worksheet for one record (lines 236-252):
\* at is the 0-based worksheet row
SheetRow(row, r0) ==
    [at |-> r0, item_id |-> row.item_id, detail_url |-> row.detail_url,
     image_preview |-> ImageFormula(r0 + 1), title_en |-> TranslateFormula(r0 + 1)]

(***************************************************************************)
(* Inputs: the listing blocks a page can hold and the runs considered.     *)
(***************************************************************************)
Q(k, v) == [k |-> k, v |-> v]

Ref(path, query, fragment) ==
    [scheme |-> "", netloc |-> "", path |-> path, query |-> query,
     fragment |-> fragment]

Block(title, price_text, href) ==
    [title |-> title, price_text |-> price_text, buyout_text |-> None,
     href |-> href, img_src |-> Some(Ref("/i.jpg", <<>>, ""))]

\* listings with an id; BlockA2's id is " A", which trims to "A"
BlockA == Block(Some("Foo"), Some(<<"Y", "5", "0", "0">>),
                Some(Ref("/list", <<Q("id", <<"A">>), Q("page", <<"1">>)>>, "")))
BlockA2 == Block(Some("Foo2"), None,
                 Some(Ref("/item", <<Q("id", <<"%20", "A">>)>>, "")))
BlockB == Block(Some("Bar"), None, Some(Ref("/item", <<Q("id", <<"B">>)>>, "")))
BlockC == Block(Some("Baz"), None, Some(Ref("/item", <<Q("id", <<"C">>)>>, "")))
\* listings without an id: the same two parameters in either order
BlockU1 == Block(Some("U"), None,
                 Some(Ref("/item", <<Q("b", <<"2">>), Q("a", <<"1">>)>>, "")))
BlockU2 == Block(Some("U"), None,
                 Some(Ref("/item", <<Q("a", <<"1">>), Q("b", <<"2">>)>>, "frag")))
\* a placeholder link href="#": no id, and urljoin gives the page's own URL
BlockH == Block(Some("Hash"), None, Some(Ref("", <<>>, "")))
\* a title inside a link without href: neither id nor detail URL
BlockT == Block(Some("Plain"), None, None)
\* a block with nothing usable
BlockNoise == Block(None, None, None)

\* what a site can serve
CatalogIds == {BlockA, BlockB, BlockC}
CatalogTrim == {BlockA, BlockA2}
CatalogUrls == {BlockU1, BlockU2}
CatalogGap == {BlockA, BlockH}
CatalogMisc == {BlockT, BlockNoise}
CatalogOne == {BlockA}

Url(query) ==
    [scheme |-> "https", netloc |-> "shop", path |-> "/list", query |-> query,
     fragment |-> ""]

UrlIdPage1 == Url(<<Q("id", <<"A">>), Q("page", <<"1">>)>>)
UrlNoPage == Url(<<>>)
UrlPage3 == Url(<<Q("page", <<"3">>)>>)

\* the runs: what the site can serve and the arguments of main
Run(catalog, url, pages, until_empty, out_xlsx) ==
    [catalog |-> catalog, start_url |-> url, pages |-> pages,
     until_empty |-> until_empty, out_xlsx |-> out_xlsx]

\* the runs that page through a site with a single listing
PagingRuns ==
    {Run(CatalogOne, u, p, e, x) :
        u \in {UrlNoPage, UrlPage3},
        p \in {None, Some(-1), Some(0), Some(1), Some(2), Some(4)},
        e \in BOOLEAN, x \in {FALSE}}
    \cup
    {Run(CatalogOne, UrlNoPage, Some(1), FALSE, TRUE)}

Runs ==
    {Run(c, UrlIdPage1, Some(2), FALSE, TRUE) :
        c \in {CatalogIds, CatalogTrim, CatalogUrls, CatalogGap}}
    \cup
    {Run(CatalogMisc, UrlIdPage1, Some(2), e, TRUE) : e \in BOOLEAN}
    \cup
    PagingRuns

\* every sequence over S of length at most n
RECURSIVE SeqsUpTo(_, _)
SeqsUpTo(S, n) ==
    IF n = 0 THEN {<<>>}
    ELSE LET shorter == SeqsUpTo(S, n - 1)
         IN  shorter \cup {Append(q, x) : q \in shorter, x \in S}

FailKinds == {"http_retryable", "http_fatal", "timeout", "other"}

(***************************************************************************)
(* State.                                                                  *)
(***************************************************************************)
VARIABLES
    run,               \* the site's catalog and the arguments of main
    pc,                \* "start", "fetch", "rows", "close", "done", "crashed"
    start_page, page,
    items, pos,        \* the list iterated by the for loop and the next index
    seen_item_ids, seen_detail_urls,
    csv,               \* the data rows handed to writer.writerow, in order
    sheet,             \* the data rows written to the worksheet, in order
    csv_file,          \* "unopened", "open", "closed"
    workbook,          \* "none", "open", "closed"
    excel_row, xlsx_row0, total_written, page_written, page_skipped,
    fetched,           \* history: the page numbers scrape_page was called for
    visited,           \* history: the item list of every successful scrape_page
    origin,            \* history: <<fetch index, position>> of each csv row
    failed,            \* history: the kind of fetch failure, if any
    xlsx_file,         \* the .xlsx file: "unwritten", "written", "failed"
    report,            \* the final "Done. Wrote ..." line, None until printed
    \* one call of a helper function on its own
    u_call,            \* the function called, "none" before any call
    u_in,              \* its argument
    u_out,             \* its result
    \* ListingsViewer, the window of Viewer_Faster.py and of GOOD/Viewer.py
    \* (the same fields in both; the queue and the dialog are used by
    \* Viewer_Faster only)
    vf_pc,             \* the handler that ran last, "off" without a window
    vf_rows,           \* self.rows: the image_url and detail_url of each row
    vf_idx,            \* self.idx
    image_cache,       \* the URLs that have an entry in self.image_cache
    after_queue,       \* callbacks registered with self.after, not yet run
    controls,          \* the buttons whose state is NORMAL
    panel,             \* the text of image_panel, "" when it shows an image
    dlg,               \* the progress dialog: "none", "destroyed"
    downloaded,        \* history: the URLs the last preload downloaded
    loads              \* history: how many tables were loaded

unit == <<u_call, u_in, u_out>>
viewer == <<vf_pc, vf_rows, vf_idx, image_cache, after_queue, controls, panel,
            dlg, downloaded, loads>>

vars == <<run, pc, start_page, page, items, pos, seen_item_ids,
          seen_detail_urls, csv, sheet, csv_file, workbook, excel_row,
          xlsx_row0, total_written, page_written, page_skipped, fetched,
          visited, origin, failed, xlsx_file, report, unit, viewer>>

\* no helper has been called on its own
UnitIdle == u_call = "none" /\ u_in = None /\ u_out = None

\* no viewer window exists
ViewerOff ==
    /\ vf_pc = "off" /\ vf_rows = <<>> /\ vf_idx = -1 /\ image_cache = {}
    /\ after_queue = <<>> /\ controls = {} /\ panel = ""
    /\ dlg = "none" /\ downloaded = {} /\ loads = 0

\* StartPage that ignores the URL
StartPage_AlwaysOne(url) == 1

\* lines 143-147
StartPage(url) ==
    LET qs == parse_qs(url.query)
        n == ParseInt(DictGet(qs, "page", <<<<"1">>>>)[1])
    IN  IF IsSome(n) THEN Val(n) ELSE 1

\* main is entered for the run r: nothing fetched, nothing opened
MainEntry(r) ==
    /\ run = r
    /\ pc = "start"
    /\ start_page = StartPage(run.start_url)
    /\ page = StartPage(run.start_url)
    /\ items = <<>>
    /\ pos = 1
    /\ seen_item_ids = {}
    /\ seen_detail_urls = {}
    /\ csv = <<>>
    /\ sheet = <<>>
    /\ csv_file = "unopened"
    /\ workbook = "none"
    /\ excel_row = 2
    /\ xlsx_row0 = 1
    /\ total_written = 0
    /\ page_written = 0
    /\ page_skipped = 0
    /\ fetched = <<>>
    /\ visited = <<>>
    /\ origin = <<>>
    /\ failed = None
    /\ xlsx_file = "unwritten"
    /\ report = None

Init ==
    /\ \E r \in Runs : MainEntry(r)
    /\ UnitIdle
    /\ ViewerOff

(***************************************************************************)
(* main(): one action per step of the loop.                                *)
(***************************************************************************)
ledger == <<seen_item_ids, seen_detail_urls>>
counters == <<excel_row, xlsx_row0, total_written>>
output == <<csv, sheet, origin>>
history == <<fetched, visited, failed>>
scraper == <<run, pc, start_page, page, items, pos, ledger, output, counters,
             csv_file, workbook, page_written, page_skipped, history,
             xlsx_file, report>>

\* lines 149-183: the workbook object is created when --out-xlsx is given,
\* then the CSV file is opened and its header written
StartOK ==
    /\ pc = "start"
    /\ pc' = "fetch"
    /\ csv_file' = "open"
    /\ workbook' = IF run.out_xlsx THEN "open" ELSE "none"
    /\ UNCHANGED <<unit, viewer, xlsx_file, report, run,
                   start_page, page, items, pos, ledger, output, counters,
                   page_written, page_skipped, history>>

\* line 176 raises (the path cannot be opened): main ends with the exception
StartFail ==
    /\ pc = "start"
    /\ pc' = "crashed"
    /\ workbook' = IF run.out_xlsx THEN "open" ELSE "none"
    /\ UNCHANGED <<unit, viewer, xlsx_file, report, run,
                   start_page, page, items, pos, ledger, output, counters,
                   csv_file, page_written, page_skipped, history>>

\* the empty-page test without the until_empty flag
AfterFetch_AnyEmptyStops(got) == IF got = <<>> THEN "close" ELSE "rows"

\* lines 198-204: an empty item list breaks the loop under --until-empty,
\* otherwise the for loop follows
AfterFetch(got) == IF got = <<>> /\ run.until_empty THEN "close" ELSE "rows"

\* a failed fetch that goes round the loop again
OnFetchError_Retry == "fetch"

\* lines 191-196: both except clauses break the loop
OnFetchError == "close"

\* lines 186-204: scrape_page returns the page's items
FetchOK(blocks) ==
    /\ pc = "fetch"
    /\ Len(fetched) < MaxFetches
    /\ LET page_url == set_page_param(run.start_url, page)
           got == scrape_page(blocks, page_url)
       IN  /\ items' = got
           /\ visited' = Append(visited, got)
           /\ pc' = AfterFetch(got)
    /\ fetched' = Append(fetched, page)
    /\ pos' = 1
    /\ page_written' = 0
    /\ page_skipped' = 0
    /\ UNCHANGED <<unit, viewer, xlsx_file, report, run,
                   start_page, page, ledger, output, counters, csv_file,
                   workbook, failed>>

\* lines 189-196: scrape_page raises (HTTPError or any other Exception)
FetchFail(kind) ==
    /\ pc = "fetch"
    /\ Len(fetched) < MaxFetches
    /\ fetched' = Append(fetched, page)
    /\ failed' = Some(kind)
    /\ pc' = OnFetchError
    /\ UNCHANGED <<unit, viewer, xlsx_file, report, run,
                   start_page, page, items, pos, ledger, output, counters,
                   csv_file, workbook, page_written, page_skipped, visited>>

\* lines 206-220: the row is a duplicate
SkipRow ==
    /\ pc = "rows"
    /\ pos <= Len(items)
    /\ IsDuplicate(RowIid(items[pos]), RowNormUrl(items[pos]),
                   seen_item_ids, seen_detail_urls)
    /\ page_skipped' = page_skipped + 1
    /\ pos' = pos + 1
    /\ UNCHANGED <<unit, viewer, xlsx_file, report, run,
                   pc, start_page, page, items, ledger, output, counters,
                   csv_file, workbook, page_written, history>>

\* lines 206-257: the row is new; it is registered and written to the sinks
WriteRow ==
    /\ pc = "rows"
    /\ pos <= Len(items)
    /\ LET row == items[pos]
           iid == RowIid(row)
           norm_url == RowNormUrl(row)
       IN  /\ ~IsDuplicate(iid, norm_url, seen_item_ids, seen_detail_urls)
           /\ seen_item_ids' = MarkSeenIds(iid, norm_url, seen_item_ids)
           /\ seen_detail_urls' = MarkSeenUrls(iid, norm_url, seen_detail_urls)
           /\ csv' = writerow(csv, CsvRow(row, excel_row))
           /\ sheet' = IF workbook = "open"
                       THEN Append(sheet, SheetRow(row, xlsx_row0))
                       ELSE sheet
    /\ origin' = Append(origin, <<Len(fetched), pos>>)
    /\ excel_row' = excel_row + 1
    /\ xlsx_row0' = xlsx_row0 + 1
    /\ total_written' = total_written + 1
    /\ page_written' = page_written + 1
    /\ pos' = pos + 1
    /\ UNCHANGED <<unit, viewer, xlsx_file, report, run,
                   pc, start_page, page, items, csv_file, workbook,
                   page_skipped, history>>

\* the budget test counting one page too many
BudgetExhausted_OneMore ==
    IsSome(run.pages) /\ page >= start_page + Val(run.pages)

\* the budget test applied to positive budgets only
BudgetExhausted_PositiveOnly ==
    /\ IsSome(run.pages) /\ Val(run.pages) > 0
    /\ page >= start_page + Val(run.pages) - 1

\* the budget test with = in place of >=
BudgetExhausted_ExactPage ==
    IsSome(run.pages) /\ page = start_page + Val(run.pages) - 1

\* line 262
BudgetExhausted ==
    IsSome(run.pages) /\ page >= start_page + Val(run.pages) - 1

\* EndPage that does not wait for the last row of the page
EndPage_BeforeLastRow ==
    /\ pc = "rows"
    /\ pos >= Len(items)
    /\ IF BudgetExhausted
       THEN pc' = "close" /\ page' = page
       ELSE pc' = "fetch" /\ page' = page + 1
    /\ UNCHANGED <<unit, viewer, xlsx_file, report, run,
                   start_page, items, pos, ledger, output, counters,
                   csv_file, workbook, page_written, page_skipped, history>>

\* EndPage with stop-on-empty looking at the rows written
EndPage_StopWhenNothingWritten ==
    /\ pc = "rows"
    /\ pos > Len(items)
    /\ IF BudgetExhausted \/ (run.until_empty /\ page_written = 0)
       THEN pc' = "close" /\ page' = page
       ELSE pc' = "fetch" /\ page' = page + 1
    /\ UNCHANGED <<unit, viewer, xlsx_file, report, run,
                   start_page, items, pos, ledger, output, counters,
                   csv_file, workbook, page_written, page_skipped, history>>

\* lines 259-265: after the last row of the page
EndPage ==
    /\ pc = "rows"
    /\ pos > Len(items)
    /\ IF BudgetExhausted
       THEN pc' = "close" /\ page' = page
       ELSE pc' = "fetch" /\ page' = page + 1
    /\ UNCHANGED <<unit, viewer, xlsx_file, report, run,
                   start_page, items, pos, ledger, output, counters,
                   csv_file, workbook, page_written, page_skipped, history>>

\* DoneReport with the last page's count in place of the total
DoneReport_LastPage == [rows |-> page_written, out_xlsx |-> run.out_xlsx]

\* line 270: the text printed when main ends
DoneReport == [rows |-> total_written, out_xlsx |-> run.out_xlsx]

\* Finish without line 268: the workbook is left open
Finish_SkipWorkbookClose ==
    /\ pc = "close"
    /\ pc' = "done"
    /\ csv_file' = "closed"
    /\ report' = Some(DoneReport)
    /\ UNCHANGED <<unit, viewer, workbook, xlsx_file, run, start_page, page,
                   items, pos, ledger, output, counters, page_written,
                   page_skipped, history>>

\* lines 176, 267-270: leaving the with block closes the CSV file, then
\* workbook.close() writes the .xlsx file and the total is printed
Finish ==
    /\ pc = "close"
    /\ pc' = "done"
    /\ csv_file' = "closed"
    /\ workbook' = IF workbook = "open" THEN "closed" ELSE workbook
    /\ xlsx_file' = IF workbook = "open" THEN "written" ELSE xlsx_file
    /\ report' = Some(DoneReport)
    /\ UNCHANGED <<unit, viewer, run, start_page, page, items, pos, ledger,
                   output, counters, page_written, page_skipped, history>>

\* lines 157, 267-268: xlsxwriter.Workbook(out_xlsx) only records the file
\* name; the file is created by workbook.close(), which raises when the
\* path cannot be written.  main ends with that exception, after the loop
\* and after the CSV file was closed
FinishXlsxFail ==
    /\ pc = "close"
    /\ workbook = "open"
    /\ pc' = "crashed"
    /\ csv_file' = "closed"
    /\ xlsx_file' = "failed"
    /\ UNCHANGED <<unit, viewer, report, workbook, run, start_page, page, items,
                   pos, ledger, output, counters, page_written, page_skipped,
                   history>>

Next ==
    \/ StartOK
    \/ StartFail
    \/ \E blocks \in SeqsUpTo(run.catalog, MaxBlocks) : FetchOK(blocks)
    \/ \E kind \in FailKinds : FetchFail(kind)
    \/ SkipRow
    \/ WriteRow
    \/ EndPage
    \/ Finish
    \/ FinishXlsxFail

Spec == Init /\ [][Next]_vars

InitPaging ==
    /\ \E r \in PagingRuns : MainEntry(r)
    /\ UnitIdle
    /\ ViewerOff

\* main on the paging runs.  It is one thread and none of its steps blocks
\* for ever (session.get has a timeout, time.sleep returns): while a step
\* is possible one is taken
SpecFair == InitPaging /\ [][Next]_vars /\ WF_vars(Next)

(***************************************************************************)
(* The helpers called on their own, one call per step, on inputs drawn     *)
(* from small sets.  main is not running and no viewer is open.            *)
(***************************************************************************)
\* the longest price text built from PriceChars
MaxText == 3

PriceChars == {"0", "1", "7", "Y", ","}

\* the examples of the documentation
PriceSamples ==
    {<<"Y", "1", ",", "2", "0", "0">>,
     <<"n", "o", " ", "d", "i", "g", "i", "t", "s">>}

\* what get_text(strip=True) can hand to clean_price, or no tag at all
PriceTexts ==
    {None} \cup
    {Some(t) : t \in SeqsUpTo(PriceChars, MaxText) \cup PriceSamples}

\* one div.list_item_block: each tag is missing or has one of a few texts
UnitBlocks ==
    [title       : {None, Some(""), Some("Foo")},
     price_text  : {None, Some(<<"0">>), Some(<<"Y", "5">>), Some(<<"-">>)},
     buyout_text : {None, Some(<<"0">>), Some(<<"Y", "5">>), Some(<<"-">>)},
     href        : {None, Some(Ref("/item", <<Q("id", <<"A">>)>>, ""))},
     img_src     : {None, Some(Ref("/i.jpg", <<>>, ""))}]

\* clean_price(text)
CallCleanPrice(text) ==
    /\ u_call' = "clean_price"
    /\ u_in' = text
    /\ u_out' = clean_price(text)
    /\ UNCHANGED <<scraper, viewer>>

\* scrape_page on a page with the single block `block`
CallScrapePage(block) ==
    /\ u_call' = "scrape_page"
    /\ u_in' = block
    /\ u_out' = scrape_page(<<block>>, UrlNoPage)
    /\ UNCHANGED <<scraper, viewer>>

\* Viewer_Translate: a cell of the title or title_en column as pandas
\* hands it over: text, a number, or nothing (no such column, NaN)
TextCell(s) == [kind |-> "str", s |-> s, n |-> 0]
NumCell(n) == [kind |-> "num", s |-> <<>>, n |-> n]
NoCell == [kind |-> "none", s |-> <<>>, n |-> 0]

TitleEnCells ==
    {NoCell, NumCell(5), TextCell(<<>>), TextCell(<<" ">>),
     TextCell(<<"E", "n">>), TextCell(<<" ", "E", "n", " ">>),
     TextCell(<<"=", "T", "R">>), TextCell(<<" ", "=", "T", "R">>)}

TitleCells ==
    {NoCell, NumCell(7), TextCell(<<>>), TextCell(<<" ">>),
     TextCell(<<"J", "p">>), TextCell(<<" ", "J", "p", " ">>)}

\* what the translator does with a text: the deep-translator package is
\* missing, the call raises, it returns nothing, or it returns a translation;
\* hit: the text is already in _translation_cache
Translators ==
    [state : {"missing", "raises", "empty", "ok"}, hit : BOOLEAN]

\* the English text the translator (or the cache) has for a text
TranslationOf(text) == <<"t", "r", ":">> \o text

\* _coerce_to_str (lines 183-189)
coerce_to_str(v) ==
    IF v.kind = "str"
    THEN IF Strip(v.s) = <<>> THEN None ELSE Some(Strip(v.s))
    ELSE IF v.kind = "num" THEN Some(IntToStr(v.n))
    ELSE None

\* _translate_to_en (lines 191-228), its result
translate_to_en(text, tr) ==
    IF text = <<>> THEN None
    ELSE IF tr.hit THEN Some(TranslationOf(text))
    ELSE IF tr.state = "ok" THEN Some(TranslationOf(text))
    ELSE None

\* Python's `a or b` on optional texts
OrElse(a, b) == IF IsSome(a) /\ Val(a) # <<>> THEN a ELSE b

\* load_table lines 129-146: the title of the row
decide_title(t_en, t, tr) ==
    LET t_en_str == coerce_to_str(t_en)
        t_str == coerce_to_str(t)
    IN  IF IsSome(t_en_str) /\ Val(t_en_str) # <<>>
           /\ ~(LStrip(Val(t_en_str)) # <<>>
                  /\ Head(LStrip(Val(t_en_str))) = "=")
        THEN Strip(Val(t_en_str))
        ELSE LET src_text == Strip(IF IsSome(t_str) THEN Val(t_str) ELSE <<>>)
             IN  Val(OrElse(translate_to_en(src_text, tr),
                     OrElse(t_en_str,
                     OrElse(t_str, Some(<<"(", "no title", ")">>)))))

\* the title decision of load_table for one row
CallDecideTitle(t_en, t, tr) ==
    /\ u_call' = "decide_title"
    /\ u_in' = [title_en |-> t_en, title |-> t, translator |-> tr]
    /\ u_out' = decide_title(t_en, t, tr)
    /\ UNCHANGED <<scraper, viewer>>

InitUnit ==
    /\ MainEntry(Run(CatalogOne, UrlNoPage, None, FALSE, FALSE))
    /\ UnitIdle
    /\ ViewerOff

NextUnit ==
    \/ \E text \in PriceTexts : CallCleanPrice(text)
    \/ \E block \in UnitBlocks : CallScrapePage(block)
    \/ \E t_en \in TitleEnCells, t \in TitleCells, tr \in Translators :
          CallDecideTitle(t_en, t, tr)

SpecUnit == InitUnit /\ [][NextUnit]_vars

(***************************************************************************)
(* Viewer_Faster.ListingsViewer.  Tk runs one handler at a time: a button  *)
(* or key handler, or the oldest callback registered with self.after.  A   *)
(* callback registered by a handler cannot run before that handler has     *)
(* returned to the main loop.                                              *)
(***************************************************************************)
\* the longest table loaded
MaxRows == 2
\* the number of tables loaded in one session
MaxLoads == 2

ImageUrls == {"u1", "u2"}

ListingRows == [image_url : {None} \cup {Some(u) : u \in ImageUrls},
                detail_url : {None, Some("d")}]

Tables == SeqsUpTo(ListingRows, MaxRows)

\* list(dict.fromkeys(urls)): first occurrences, in order
RECURSIVE Dedup(_)
Dedup(q) ==
    IF q = <<>> THEN <<>>
    ELSE LET front == Dedup(SubSeq(q, 1, Len(q) - 1))
             x == q[Len(q)]
         IN  IF \E i \in 1..Len(front) : front[i] = x THEN front
             ELSE Append(front, x)

\* lines 203-204
PreloadUrls(rs) ==
    LET with_url == SelectSeq(rs, LAMBDA r : IsSome(r.image_url))
    IN  Dedup([i \in 1..Len(with_url) |-> Val(with_url[i].image_url)])

\* the orders in which as_completed can deliver the futures of `urls`
CompletionOrders(urls) ==
    {q \in [1..Len(urls) -> {urls[i] : i \in 1..Len(urls)}] :
        \A i, j \in 1..Len(urls) : i # j => q[i] # q[j]}

\* _enable_controls: the buttons set to NORMAL
EnableControls(rs, i) ==
    LET have == i >= 0
    IN  (IF have /\ i > 0 THEN {"prev"} ELSE {})
        \cup (IF have /\ i < Len(rs) - 1 THEN {"next"} ELSE {})
        \cup (IF have /\ IsSome(rs[i + 1].detail_url) THEN {"open"} ELSE {})

\* show_current: what image_panel shows
ShowCurrent(rs, i, cache) ==
    IF i < 0 \/ i >= Len(rs) THEN "No data loaded"
    ELSE IF IsNone(rs[i + 1].image_url) THEN "(no image)"
    ELSE IF Val(rs[i + 1].image_url) \notin cache THEN "(not preloaded)"
    ELSE ""

\* make_photo (lines 252-264), run when the dialog is in state d: its first
\* statement configures the progress bar, which raises TclError once the
\* dialog has been destroyed, so nothing is stored
make_photo(cache, cb, d) ==
    IF d = "destroyed" THEN cache
    ELSE IF cb.ok THEN cache \cup {cb.url} ELSE cache

\* an entry of the queue of self.after
Callback(cb, url, ok) == [cb |-> cb, url |-> url, ok |-> ok]

\* load_table (lines 115-187) with a file that reads into the rows rs
LoadTable(rs) ==
    /\ vf_pc # "off"
    /\ loads < MaxLoads
    /\ vf_rows' = rs
    /\ vf_idx' = IF rs # <<>> THEN 0 ELSE -1
    /\ controls' = {}
    /\ after_queue' = Append(after_queue, Callback("preload", "", FALSE))
    /\ downloaded' = {}
    /\ loads' = loads + 1
    /\ vf_pc' = "load_table"
    /\ UNCHANGED <<scraper, unit, image_cache, panel, dlg>>

\* _preload_all_images (lines 200-273), run from the queue: every download
\* ends, well for the URLs in ok, before the handler goes on; one make_photo
\* per URL is registered, then the dialog is destroyed, the controls are
\* enabled and show_current is called
PreloadAllImages(ok, order) ==
    /\ after_queue # <<>>
    /\ Head(after_queue).cb = "preload"
    /\ IF PreloadUrls(vf_rows) = <<>>
       THEN /\ ok = {}
            /\ after_queue' = Tail(after_queue)
            /\ dlg' = dlg
       ELSE /\ after_queue' = Tail(after_queue) \o
                   [i \in 1..Len(order) |->
                       Callback("make_photo", order[i], order[i] \in ok)]
            /\ dlg' = "destroyed"
    /\ downloaded' = ok
    /\ controls' = EnableControls(vf_rows, vf_idx)
    /\ panel' = ShowCurrent(vf_rows, vf_idx, image_cache)
    /\ vf_pc' = "preload"
    /\ UNCHANGED <<scraper, unit, vf_rows, vf_idx, image_cache, loads>>

\* a make_photo callback runs from the queue
MakePhoto ==
    /\ after_queue # <<>>
    /\ Head(after_queue).cb = "make_photo"
    /\ image_cache' = make_photo(image_cache, Head(after_queue), dlg)
    /\ after_queue' = Tail(after_queue)
    /\ vf_pc' = "make_photo"
    /\ UNCHANGED <<scraper, unit, vf_rows, vf_idx, controls, panel, dlg,
                   downloaded, loads>>

\* next_row (lines 287-290), from the button or the <Right> key
NextRow ==
    /\ vf_pc # "off"
    /\ IF vf_idx < Len(vf_rows) - 1
       THEN /\ vf_idx' = vf_idx + 1
            /\ panel' = ShowCurrent(vf_rows, vf_idx + 1, image_cache)
            /\ controls' = EnableControls(vf_rows, vf_idx + 1)
       ELSE UNCHANGED <<vf_idx, panel, controls>>
    /\ vf_pc' = "next_row"
    /\ UNCHANGED <<scraper, unit, vf_rows, image_cache, after_queue, dlg,
                   downloaded, loads>>

\* prev_row (lines 282-285), from the button or the <Left> key
PrevRow ==
    /\ vf_pc # "off"
    /\ IF vf_idx > 0
       THEN /\ vf_idx' = vf_idx - 1
            /\ panel' = ShowCurrent(vf_rows, vf_idx - 1, image_cache)
            /\ controls' = EnableControls(vf_rows, vf_idx - 1)
       ELSE UNCHANGED <<vf_idx, panel, controls>>
    /\ vf_pc' = "prev_row"
    /\ UNCHANGED <<scraper, unit, vf_rows, image_cache, after_queue, dlg,
                   downloaded, loads>>

\* ListingsViewer() has been constructed (lines 42-94)
InitViewerFaster ==
    /\ MainEntry(Run(CatalogOne, UrlNoPage, None, FALSE, FALSE))
    /\ UnitIdle
    /\ vf_pc = "init" /\ vf_rows = <<>> /\ vf_idx = -1 /\ image_cache = {}
    /\ after_queue = <<>> /\ controls = {} /\ panel = ""
    /\ dlg = "none" /\ downloaded = {} /\ loads = 0

NextViewerFaster ==
    \/ \E rs \in Tables : LoadTable(rs)
    \/ \E ok \in SUBSET ImageUrls :
          \E order \in CompletionOrders(PreloadUrls(vf_rows)) :
             /\ ok \subseteq {order[i] : i \in 1..Len(order)}
             /\ PreloadAllImages(ok, order)
    \/ MakePhoto
    \/ NextRow
    \/ PrevRow

SpecViewerFaster == InitViewerFaster /\ [][NextViewerFaster]_vars

(***************************************************************************)
(* GOOD/Viewer.py, ListingsViewer: every handler runs to its end, the      *)
(* image of the row shown is downloaded inside show_current.               *)
(***************************************************************************)
\* load_table that leaves no row current whatever the table holds
FirstIdx_NoRow(rs) == -1

\* line 147: self.idx = 0 if self.rows else -1
FirstIdx(rs) == IF rs # <<>> THEN 0 ELSE -1

\* update_controls (lines 176-180): the buttons set to NORMAL
update_controls(rs, i) ==
    LET have == i >= 0
    IN  (IF have /\ i > 0 THEN {"prev"} ELSE {})
        \cup (IF have /\ i < Len(rs) - 1 THEN {"next"} ELSE {})
        \cup (IF have /\ IsSome(rs[i + 1].detail_url) THEN {"open"} ELSE {})

\* fetch_image (lines 205-222) for row i of rs; ok: the download and the
\* decoding succeed.  The result is whether there is a photo, and the cache
FetchImage(rs, i, cache, ok) ==
    LET url == rs[i + 1].image_url
    IN  IF IsNone(url) THEN [photo |-> FALSE, cache |-> cache]
        ELSE IF Val(url) \in cache THEN [photo |-> TRUE, cache |-> cache]
        ELSE IF ok THEN [photo |-> TRUE, cache |-> cache \cup {Val(url)}]
        ELSE [photo |-> FALSE, cache |-> cache]

\* show_current (lines 183-203): the panel text and the cache it leaves
ViewerShow(rs, i, cache, ok) ==
    IF i < 0 \/ i >= Len(rs)
    THEN [panel |-> "No data loaded", cache |-> cache]
    ELSE LET got == FetchImage(rs, i, cache, ok)
         IN  [panel |-> IF got.photo THEN "" ELSE "(no image)",
              cache |-> got.cache]

\* load_table (lines 85-151) with a file that reads into the rows rs
ViewerLoadTable(rs, ok) ==
    /\ vf_pc # "off"
    /\ vf_rows' = rs
    /\ vf_idx' = FirstIdx(rs)
    /\ controls' = update_controls(rs, FirstIdx(rs))
    /\ panel' = ViewerShow(rs, FirstIdx(rs), image_cache, ok).panel
    /\ image_cache' = ViewerShow(rs, FirstIdx(rs), image_cache, ok).cache
    /\ vf_pc' = "load_table"
    /\ UNCHANGED <<scraper, unit, after_queue, dlg, downloaded, loads>>

\* load_table returning early: no file picked (line 95), the file cannot be
\* read (101) or has no image column (114)
ViewerLoadNothing ==
    /\ vf_pc # "off"
    /\ vf_pc' = "load_table_none"
    /\ UNCHANGED <<scraper, unit, vf_rows, vf_idx, image_cache, after_queue,
                   controls, panel, dlg, downloaded, loads>>

\* next_row (lines 171-174), from the button or the <Right> key
ViewerNextRow(ok) ==
    /\ vf_pc # "off"
    /\ IF vf_idx < Len(vf_rows) - 1
       THEN /\ vf_idx' = vf_idx + 1
            /\ controls' = update_controls(vf_rows, vf_idx + 1)
            /\ panel' = ViewerShow(vf_rows, vf_idx + 1, image_cache, ok).panel
            /\ image_cache' =
                  ViewerShow(vf_rows, vf_idx + 1, image_cache, ok).cache
       ELSE UNCHANGED <<vf_idx, controls, panel, image_cache>>
    /\ vf_pc' = "next_row"
    /\ UNCHANGED <<scraper, unit, vf_rows, after_queue, dlg, downloaded,
                   loads>>

\* prev_row (lines 166-169), from the button or the <Left> key
ViewerPrevRow(ok) ==
    /\ vf_pc # "off"
    /\ IF vf_idx > 0
       THEN /\ vf_idx' = vf_idx - 1
            /\ controls' = update_controls(vf_rows, vf_idx - 1)
            /\ panel' = ViewerShow(vf_rows, vf_idx - 1, image_cache, ok).panel
            /\ image_cache' =
                  ViewerShow(vf_rows, vf_idx - 1, image_cache, ok).cache
       ELSE UNCHANGED <<vf_idx, controls, panel, image_cache>>
    /\ vf_pc' = "prev_row"
    /\ UNCHANGED <<scraper, unit, vf_rows, after_queue, dlg, downloaded,
                   loads>>

\* ListingsViewer() has been constructed (lines 35-82)
InitViewer ==
    /\ MainEntry(Run(CatalogOne, UrlNoPage, None, FALSE, FALSE))
    /\ UnitIdle
    /\ vf_pc = "init" /\ vf_rows = <<>> /\ vf_idx = -1 /\ image_cache = {}
    /\ after_queue = <<>> /\ controls = {} /\ panel = ""
    /\ dlg = "none" /\ downloaded = {} /\ loads = 0

NextViewer ==
    \/ \E rs \in Tables, ok \in BOOLEAN : ViewerLoadTable(rs, ok)
    \/ ViewerLoadNothing
    \/ \E ok \in BOOLEAN : ViewerNextRow(ok)
    \/ \E ok \in BOOLEAN : ViewerPrevRow(ok)

SpecViewer == InitViewer /\ [][NextViewer]_vars

(***************************************************************************)
(* Vocabulary of the properties.  A candidate is named by its origin       *)
(* <<f, p>>: the p-th item of the f-th fetched page.                       *)
(***************************************************************************)
Candidates ==
    UNION {{<<f, p>> : p \in 1..Len(visited[f])} : f \in 1..Len(visited)}

Cand(o) == visited[o[1]][o[2]]

\* o1 was extracted before o2
Before(o1, o2) == o1[1] < o2[1] \/ (o1[1] = o2[1] /\ o1[2] < o2[2])

\* the for loop is past candidate o
Processed(o) == o[1] < Len(visited) \/ (o[1] = Len(visited) /\ o[2] < pos)

IsWritten(o) == \E k \in 1..Len(origin) : origin[k] = o

\* the identifier without surrounding blanks, None if nothing is left:
\* the text between the first and the last non-blank character
TrimmedId(row) ==
    IF IsNone(row.item_id) THEN None
    ELSE LET t == Val(row.item_id)
             solid == {i \in 1..Len(t) : t[i] # " "}
         IN  IF solid = {} THEN None
             ELSE LET lo == CHOOSE i \in solid : \A j \in solid : i <= j
                      hi == CHOOSE i \in solid : \A j \in solid : j <= i
                  IN  Some(SubSeq(t, lo, hi))

HasId(row) == IsSome(TrimmedId(row))
HasUrl(row) == IsSome(row.detail_url)

\* C1: a trimmed non-empty identifier is admitted exactly once: a processed
\* candidate with identifier X is in the output iff no earlier candidate of
\* the run had identifier X, and no two output rows share an identifier.
C1_IdentifierAdmittedOnce ==
    /\ \A o \in Candidates :
          Processed(o) /\ HasId(Cand(o)) =>
             (IsWritten(o) <=>
                 ~\E e \in Candidates :
                     Before(e, o) /\ TrimmedId(Cand(e)) = TrimmedId(Cand(o)))
    /\ \A i, j \in 1..Len(csv) :
          i < j /\ HasId(csv[i]) => TrimmedId(csv[i]) # TrimmedId(csv[j])

\* a candidate of the second page was skipped because its identifier, once
\* trimmed, is the one of a row written from the first page with another
\* raw identifier
C1_Witness ==
    \E o \in Candidates :
        /\ Processed(o) /\ o[1] = 2 /\ HasId(Cand(o)) /\ ~IsWritten(o)
        /\ \E k \in 1..Len(csv) :
              /\ origin[k][1] = 1
              /\ TrimmedId(csv[k]) = TrimmedId(Cand(o))
              /\ csv[k].item_id # Cand(o).item_id

\* number of occurrences of x in the sequence q
Count(q, x) == Cardinality({i \in 1..Len(q) : q[i] = x})

\* the two raw queries hold the same key/value pairs, in any order
SameQueryPairs(q1, q2) ==
    /\ Len(q1) = Len(q2)
    /\ \A i \in 1..Len(q1) : Count(q1, q1[i]) = Count(q2, q1[i])

\* C2: normalize_detail_url gives the same key to two detail URLs with the
\* same scheme, host and path whose queries hold the same pairs in any
\* order, whatever their fragments.
C2_NormalizeIgnoresOrderAndFragment ==
    \A o1, o2 \in Candidates :
        LET u1 == Cand(o1).detail_url
            u2 == Cand(o2).detail_url
        IN  (/\ IsSome(u1) /\ IsSome(u2)
             /\ Val(u1).scheme = Val(u2).scheme
             /\ Val(u1).netloc = Val(u2).netloc
             /\ Val(u1).path = Val(u2).path
             /\ SameQueryPairs(Val(u1).query, Val(u2).query))
            => normalize_detail_url(u1) = normalize_detail_url(u2)

\* C3: among candidates without identifier, a normalized detail URL is
\* admitted once: such a processed candidate is in the output iff no earlier
\* identifier-less candidate normalizes to the same URL, and no two
\* identifier-less output rows share a normalized detail URL.
C3_UrlFallbackAdmittedOnce ==
    /\ \A o \in Candidates :
          Processed(o) /\ ~HasId(Cand(o)) /\ HasUrl(Cand(o)) =>
             (IsWritten(o) <=>
                 ~\E e \in Candidates :
                     /\ Before(e, o) /\ ~HasId(Cand(e))
                     /\ RowNormUrl(Cand(e)) = RowNormUrl(Cand(o)))
    /\ \A i, j \in 1..Len(csv) :
          i < j /\ ~HasId(csv[i]) /\ ~HasId(csv[j]) /\ HasUrl(csv[i])
             => RowNormUrl(csv[i]) # RowNormUrl(csv[j])

\* an identifier-less candidate of the second page was skipped: its
\* normalized URL is the one of an identifier-less row of the first page
C3_Witness ==
    \E o \in Candidates :
        /\ Processed(o) /\ o[1] = 2 /\ ~HasId(Cand(o)) /\ HasUrl(Cand(o))
        /\ ~IsWritten(o)
        /\ \E k \in 1..Len(csv) :
              /\ origin[k][1] = 1 /\ ~HasId(csv[k])
              /\ RowNormUrl(csv[k]) = RowNormUrl(Cand(o))

\* candidate o has no identifier and its detail URL is the one of a row
\* written earlier with an identifier
SharesUrlWithIdRow(o) ==
    /\ ~HasId(Cand(o)) /\ HasUrl(Cand(o))
    /\ \E k \in 1..Len(csv) :
          /\ Before(origin[k], o) /\ HasId(csv[k]) /\ HasUrl(csv[k])
          /\ RowNormUrl(csv[k]) = RowNormUrl(Cand(o))

\* C4 as stated: every identifier-less candidate that shares the detail URL
\* of an earlier admitted candidate with identifier is written as a new row.
C4_AsStated ==
    \A o \in Candidates : Processed(o) /\ SharesUrlWithIdRow(o) => IsWritten(o)

\* C4, amended: a candidate admitted with an identifier is registered in
\* the identifier set only (the URL set holds exactly the normalized URLs of
\* the identifier-less output rows), and an identifier-less candidate that
\* shares its detail URL is written unless an earlier identifier-less
\* candidate with the same normalized URL was admitted.
C4_IdentifierPrecedesUrl ==
    /\ seen_detail_urls =
          {Val(RowNormUrl(csv[k])) :
              k \in {i \in 1..Len(csv) : ~HasId(csv[i]) /\ HasUrl(csv[i])}}
    /\ \A o \in Candidates :
          Processed(o) /\ SharesUrlWithIdRow(o) =>
             (IsWritten(o) <=>
                 ~\E k \in 1..Len(csv) :
                     /\ Before(origin[k], o) /\ ~HasId(csv[k])
                     /\ RowNormUrl(csv[k]) = RowNormUrl(Cand(o)))

\* a row with identifier and detail URL is followed in the output by a row
\* without identifier that has the very same detail URL
C4_Witness ==
    \E i, j \in 1..Len(csv) :
        /\ i < j /\ HasId(csv[i]) /\ ~HasId(csv[j])
        /\ HasUrl(csv[i]) /\ csv[i].detail_url = csv[j].detail_url

Keyless(row) == ~HasId(row) /\ ~HasUrl(row)

\* C5: when the loop is at a candidate with neither identifier nor detail
\* URL, its step writes the candidate and leaves both ledger sets as they
\* are.
C5_KeylessAlwaysWritten ==
    [][(pc = "rows" /\ pos <= Len(items) /\ Keyless(items[pos]))
         => /\ Len(csv') = Len(csv) + 1
            /\ csv'[Len(csv')].title = items[pos].title
            /\ csv'[Len(csv')].source_page = items[pos].source_page
            /\ Keyless(csv'[Len(csv')])
            /\ seen_item_ids' = seen_item_ids
            /\ seen_detail_urls' = seen_detail_urls]_vars

\* three keyless candidates in a row were all written
C5_Witness ==
    \E i \in 1..Len(csv) :
        /\ i + 2 <= Len(csv)
        /\ Keyless(csv[i]) /\ Keyless(csv[i + 1]) /\ Keyless(csv[i + 2])

\* the run has left the loop (it crashes after the loop when the .xlsx
\* file cannot be created)
Stopped ==
    \/ pc \in {"close", "done"}
    \/ pc = "crashed" /\ xlsx_file = "failed"

\* the pages s, s+1, ..., s+n-1
PagesFrom(s, n) == [i \in 1..n |-> s + i - 1]

\* the loop was left at an empty page under --until-empty
StoppedOnEmpty ==
    /\ run.until_empty /\ IsNone(failed)
    /\ Len(visited) > 0 /\ visited[Len(visited)] = <<>>

\* C6: with a budget b >= 1 the pages fetched are always a prefix of
\* s, s+1, ..., s+b-1, and a run that left the loop without a fetch failure
\* and without stop-on-empty has fetched exactly these b pages.
C6_BudgetVisitsExactlyBPages ==
    (IsSome(run.pages) /\ Val(run.pages) >= 1) =>
        /\ Len(fetched) <= Val(run.pages)
        /\ fetched = PagesFrom(start_page, Len(fetched))
        /\ (Stopped /\ IsNone(failed) /\ ~StoppedOnEmpty)
              => fetched = PagesFrom(start_page, Val(run.pages))

\* start page 3, budget 4: the finished run fetched 3, 4, 5, 6
C6_Witness ==
    /\ pc = "done" /\ start_page = 3 /\ run.pages = Some(4)
    /\ IsNone(failed) /\ ~StoppedOnEmpty
    /\ fetched = <<3, 4, 5, 6>>

\* the budget, counted in pages, is used up once page number f is done
BudgetUsedUp(f) == IsSome(run.pages) /\ f >= Val(run.pages)

\* C7: with stop-on-empty enabled nothing is fetched after a page without
\* candidates; with it disabled a run that stopped has fetched the page
\* after every empty page, unless the budget ended at that page.
C7_StopOnEmpty ==
    \A f \in 1..Len(visited) :
        visited[f] = <<>> =>
            IF run.until_empty
            THEN Len(fetched) = f /\ Stopped
            ELSE (Stopped /\ ~BudgetUsedUp(f)) => Len(fetched) > f

\* stop-on-empty ended a run at an empty second page, two pages before its
\* budget of four
C7_Witness ==
    /\ pc = "done" /\ run.until_empty /\ run.pages = Some(4)
    /\ Len(fetched) = 2 /\ Len(visited) = 2
    /\ visited[1] # <<>> /\ visited[2] = <<>>

\* C8: a fetch failure ends the loop at the failing page: the step that
\* fails writes no row and leaves the loop, and once a fetch has failed no
\* page is fetched (the failing one included) and the rows written stay as
\* they are.
C8_FetchFailureStopsRun ==
    [][/\ (IsNone(failed) /\ IsSome(failed'))
            => /\ pc' = "close"
               /\ fetched' = Append(fetched, page)
               /\ csv' = csv /\ sheet' = sheet
       /\ IsSome(failed)
            => /\ fetched' = fetched /\ visited' = visited
               /\ csv' = csv /\ sheet' = sheet
               /\ pc' \in {"close", "done", "crashed"}]_vars

\* the second fetch timed out after rows of the first page were written,
\* and the run ended with these rows
C8_Witness ==
    /\ pc = "done" /\ failed = Some("timeout")
    /\ Len(fetched) = 2 /\ Len(visited) = 1
    /\ Len(csv) >= 2 /\ \A k \in 1..Len(csv) : origin[k][1] = 1

\* the candidate's fields as they appear in an output row
SameRecord(out, it) ==
    /\ out.item_id = it.item_id /\ out.title = it.title
    /\ out.price_jpy = it.price_jpy /\ out.buyout_jpy = it.buyout_jpy
    /\ out.detail_url = it.detail_url /\ out.image_url = it.image_url
    /\ out.source_page = it.source_page

\* two candidates the ledger cannot tell apart
SameIdentity(a, b) ==
    \/ HasId(a) /\ TrimmedId(a) = TrimmedId(b)
    \/ /\ ~HasId(a) /\ ~HasId(b) /\ HasUrl(a)
       /\ RowNormUrl(a) = RowNormUrl(b)

FirstSeen(o) ==
    ~\E e \in Candidates : Before(e, o) /\ SameIdentity(Cand(e), Cand(o))

\* C9: the output is the first-seen candidates in visit order: row k is the
\* candidate at origin[k], the origins increase (page first, then position),
\* and a processed candidate is in the output iff it is the first of its
\* identity.
C9_RowOrderIsVisitOrder ==
    /\ Len(origin) = Len(csv)
    /\ \A k \in 1..Len(csv) :
          /\ origin[k] \in Candidates
          /\ SameRecord(csv[k], Cand(origin[k]))
    /\ \A k, l \in 1..Len(csv) : k < l <=> Before(origin[k], origin[l])
    /\ \A o \in Candidates : Processed(o) => (IsWritten(o) <=> FirstSeen(o))

\* rows from two pages, with a duplicate skipped between two written rows
C9_Witness ==
    /\ pc = "done"
    /\ \E k \in 1..Len(csv) : origin[k] = <<1, 2>>
    /\ \E k \in 1..Len(csv) : origin[k] = <<2, 2>>
    /\ \E o \in Candidates : o[1] = 2 /\ o[2] = 1 /\ ~IsWritten(o)

\* the trimmed identifiers of a sequence of rows
IdsOf(rows) == [k \in 1..Len(rows) |-> TrimmedId(rows[k])]

\* the scenario of the spec: page 1 holds A, B and page 2 holds A, C
TwoPageScenario ==
    /\ Len(visited) = 2
    /\ IdsOf(visited[1]) = <<Some(<<"A">>), Some(<<"B">>)>>
    /\ IdsOf(visited[2]) = <<Some(<<"A">>), Some(<<"C">>)>>

\* C10: the k-th data row's two formulas reference row k+1 (columns F and
\* B), in the CSV and in the worksheet, where it is stored at 0-based row k;
\* in the two-page scenario the finished output is A, B, C with formulas
\* on rows 2, 3, 4.
C10_FormulasReferenceOwnRow ==
    /\ \A k \in 1..Len(csv) :
          /\ csv[k].image_preview.col = "F" /\ csv[k].image_preview.row = k + 1
          /\ csv[k].title_en.col = "B" /\ csv[k].title_en.row = k + 1
    /\ \A k \in 1..Len(sheet) :
          /\ sheet[k].at = k
          /\ sheet[k].image_preview.col = "F" /\ sheet[k].image_preview.row = k + 1
          /\ sheet[k].title_en.col = "B" /\ sheet[k].title_en.row = k + 1
    /\ (TwoPageScenario /\ Stopped) =>
          /\ IdsOf(csv) = <<Some(<<"A">>), Some(<<"B">>), Some(<<"C">>)>>
          /\ [k \in 1..Len(csv) |-> csv[k].image_preview.row] = <<2, 3, 4>>
          /\ [k \in 1..Len(csv) |-> csv[k].title_en.row] = <<2, 3, 4>>

\* the two-page scenario has run to its end
C10_Witness ==
    /\ pc = "done" /\ TwoPageScenario
    /\ IdsOf(csv) = <<Some(<<"A">>), Some(<<"B">>), Some(<<"C">>)>>
    /\ Len(sheet) = 3 /\ sheet[3].image_preview.row = 4


(***************************************************************************)
(* C11, C12: the extractor and clean_price on their own.                   *)
(***************************************************************************)
DecimalDigits == {"0", "1", "2", "3", "4", "5", "6", "7", "8", "9"}

DecimalValue ==
    "0" :> 0 @@ "1" :> 1 @@ "2" :> 2 @@ "3" :> 3 @@ "4" :> 4 @@
    "5" :> 5 @@ "6" :> 6 @@ "7" :> 7 @@ "8" :> 8 @@ "9" :> 9

DigitPositions(t) == {i \in DOMAIN t : t[i] \in DecimalDigits}

\* the optional text has at least one digit character
HasDigit(o) == IsSome(o) /\ DigitPositions(Val(o)) # {}

\* the k-th digit character of t, counting from the left
NthDigit(t, k) ==
    LET P == DigitPositions(t)
    IN  t[CHOOSE i \in P : Cardinality({j \in P : j < i}) = k - 1]

RECURSIVE Pow10(_)
Pow10(n) == IF n = 0 THEN 1 ELSE 10 * Pow10(n - 1)

RECURSIVE PlaceSum(_, _, _)
PlaceSum(t, k, n) ==
    IF k > n THEN 0
    ELSE DecimalValue[NthDigit(t, k)] * Pow10(n - k) + PlaceSum(t, k + 1, n)

\* the integer written by the digit characters of t, in their order
SpelledInt(t) == PlaceSum(t, 1, Cardinality(DigitPositions(t)))

\* a block none of whose four fields is there: no title text, no digit in
\* either price, no link
AllAbsent(block) ==
    /\ block.title \in {None, Some("")}
    /\ ~HasDigit(block.price_text)
    /\ ~HasDigit(block.buyout_text)
    /\ IsNone(block.href)

\* C11 (as stated): the extractor drops a block exactly when title, current
\* price, buyout price and detail URL are all absent; a block with any of
\* them, a parsed price of 0 included, contributes exactly one candidate.
C11_DropsExactlyWhenAllAbsent ==
    u_call = "scrape_page" =>
        Len(u_out) = IF AllAbsent(u_in) THEN 0 ELSE 1

PageParamOr1(url) ==
    LET P == {i \in DOMAIN url.query : url.query[i].k = "page"}
    IN  IF P = {} THEN 1
        ELSE SpelledInt(url.query[CHOOSE i \in P : \A j \in P : i <= j].v)

\* C13: the cursor starts at the starting URL's `page` parameter, or at 1
\* when there is none, and moves by exactly 1 after every processed page,
\* whatever the page produced: the n-th fetch asks for page start + n - 1
\* and the cursor is the page being processed or the next one to fetch.
C13_CursorStartsAtParamStepsByOne ==
    /\ start_page = PageParamOr1(run.start_url)
    /\ \A n \in 1..Len(fetched) : fetched[n] = start_page + n - 1
    /\ page = IF pc = "fetch" \/ fetched = <<>>
              THEN start_page + Len(fetched)
              ELSE start_page + Len(fetched) - 1

\* from ?page=3: an empty page, a page with a written and a skipped row, and
\* a third fetch
C13_Witness ==
    /\ run.start_url = UrlPage3
    /\ fetched = <<3, 4, 5>>
    /\ visited[1] = <<>>
    /\ Len(visited[2]) = 2 /\ Len(csv) = 1

SinkOpenFailed ==
    \/ pc = "crashed" /\ csv_file = "unopened"
    \/ xlsx_file = "failed"

\* C15 (as stated): a failure to open an output sink is fatal at startup: in
\* a run in which a sink could not be opened no page was ever fetched.
C15_OpenFailureBeforeAnyFetch == SinkOpenFailed => fetched = <<>>

(***************************************************************************)
(* C16: the closing report.                                                *)
(***************************************************************************)
\* C16 (as stated): when the run stops it reports the total number of pages
\* visited and the total number of records written, the latter equal to the
\* number of data rows emitted.
C16_AsStated ==
    pc = "done" =>
        /\ IsSome(report)
        /\ {"pages", "rows"} \subseteq DOMAIN Val(report)
        /\ Val(report).rows = Len(csv)

\* C16 (amended): the closing line is printed exactly when main ends
\* normally; it carries the total of records written, which is the number
\* of data rows emitted to each sink, and no total of pages; main ends
\* abnormally only when a sink could not be opened or created, never
\* because nothing was written.
C16_ReportsRowsWritten ==
    /\ IsSome(report) <=> pc = "done"
    /\ IsSome(report) =>
          /\ DOMAIN Val(report) = {"rows", "out_xlsx"}
          /\ Val(report).rows = Len(csv)
          /\ run.out_xlsx => Val(report).rows = Len(sheet)
    /\ pc = "crashed" => SinkOpenFailed

\* two pages, the second repeating a listing of the first: the report
\* counts the rows written, not the candidates seen
C16_Witness ==
    /\ pc = "done" /\ IsNone(failed)
    /\ Len(fetched) = 2 /\ Len(visited[1]) = 2 /\ Len(visited[2]) = 2
    /\ Len(csv) = 3
    /\ Val(report).rows = 3

(***************************************************************************)
(* C17: Viewer_Faster, the cache at the end of the preload.                *)
(***************************************************************************)
\* C17 (as stated): when _preload_all_images has enabled the controls and
\* called show_current, image_cache has an entry for every URL whose
\* download succeeded, and the panel does not say "(not preloaded)" for
\* such a URL.
C17_CacheFilledWhenControlsEnabled ==
    vf_pc = "preload" =>
        /\ downloaded \subseteq image_cache
        /\ panel = "(not preloaded)" =>
               Val(vf_rows[vf_idx + 1].image_url) \notin downloaded

(***************************************************************************)
(* C18: Viewer_Translate, the title shown for a row.                       *)
(***************************************************************************)
\* the text of a cell without its surrounding blanks, <<>> for no text
CellText(v) ==
    IF v.kind = "str" THEN Strip(v.s)
    ELSE IF v.kind = "num" THEN IntToStr(v.n)
    ELSE <<>>

IsFormulaText(s) == s # <<>> /\ s[1] = "="

IsPlainText(s) == s # <<>> /\ s[1] # "="

\* a translation of the text is to be had: cached, or the translator works
Translatable(s, tr) == s # <<>> /\ (tr.hit \/ tr.state = "ok")

\* C18 (as stated): the displayed title is title_en when title_en is plain
\* text; otherwise it is the translation of title, and the original title
\* text when there is a title but no translation to be had; a formula in
\* title_en is never displayed when title is non-empty.
C18_TitleNeverTheFormula ==
    u_call = "decide_title" =>
        LET en == CellText(u_in.title_en)
            jp == CellText(u_in.title)
        IN  /\ IsPlainText(en) => u_out = en
            /\ (~IsPlainText(en) /\ Translatable(jp, u_in.translator))
                  => u_out = TranslationOf(jp)
            /\ (~IsPlainText(en) /\ jp # <<>>
                  /\ ~Translatable(jp, u_in.translator)) => u_out = jp
            /\ (IsFormulaText(en) /\ jp # <<>>) => u_out # en

(***************************************************************************)
(* C19: the ledger only grows.                                             *)
(***************************************************************************)
\* C19: both ledger sets are empty when the run starts and no step removes
\* an element; the step that rejects a candidate leaves both sets as they
\* are, the step that admits one adds its trimmed identifier to the
\* identifier set alone when it has one, its normalized URL to the URL set
\* alone when it has only a URL, and nothing when it has neither.
C19_LedgerOnlyGrows ==
    /\ seen_item_ids = {} /\ seen_detail_urls = {}
    /\ [][ /\ seen_item_ids \subseteq seen_item_ids'
           /\ seen_detail_urls \subseteq seen_detail_urls'
           /\ (pc = "rows" /\ pos <= Len(items)) =>
                 LET row == items[pos]
                     id == TrimmedId(row)
                 IN  IF Len(csv') = Len(csv)
                     THEN /\ seen_item_ids' = seen_item_ids
                          /\ seen_detail_urls' = seen_detail_urls
                     ELSE IF IsSome(id)
                     THEN /\ seen_item_ids' = seen_item_ids \cup {Val(id)}
                          /\ seen_detail_urls' = seen_detail_urls
                     ELSE IF HasUrl(row)
                     THEN /\ seen_item_ids' = seen_item_ids
                          /\ seen_detail_urls' =
                                seen_detail_urls \cup {Val(RowNormUrl(row))}
                     ELSE /\ seen_item_ids' = seen_item_ids
                          /\ seen_detail_urls' = seen_detail_urls
         ]_vars

\* one row admitted by its identifier, one by its URL, and a duplicate
\* rejected on the same page
C19_Witness ==
    /\ Cardinality(seen_item_ids) = 1
    /\ Cardinality(seen_detail_urls) = 1
    /\ Len(csv) = 2
    /\ page_skipped = 1

(***************************************************************************)
(* C20: one page at a time.                                                *)
(***************************************************************************)
\* C20: a fetch starts only when the for loop is past the last candidate of
\* the page fetched before it, and every candidate extracted so far has
\* been through the ledger and, if it was the first of its identity, is in
\* the CSV file (and in the worksheet when there is one).
C20_PagesStrictlySequential ==
    [][fetched' # fetched =>
          /\ pos > Len(items)
          /\ page_written + page_skipped = Len(items)
          /\ \A o \in Candidates : IsWritten(o) <=> FirstSeen(o)
          /\ workbook = "open" => Len(sheet) = Len(csv)
      ]_vars

\* the second page has just been fetched: the three candidates of the first
\* are behind, two written and one skipped
C20_Witness ==
    /\ Len(fetched) = 2 /\ pc = "rows" /\ pos = 1
    /\ Len(visited[1]) = 3 /\ Len(visited[2]) >= 1
    /\ Len(csv) = 2
    /\ workbook = "open" /\ Len(sheet) = 2

(***************************************************************************)
(* C21: budgets below 1.                                                   *)
(***************************************************************************)
\* the candidates of the f-th fetched page that are the first of their
\* identity
FirstSeenOn(f) == {o \in Candidates : o[1] = f /\ FirstSeen(o)}

\* C21: the budget is tested only after a page was fetched and processed:
\* a run that has left the loop has asked for its start page, and with a
\* budget of 1, 0 or less it has asked for that page alone; when the fetch
\* succeeded the rows written are the first-seen candidates of that page.
C21_BudgetBelowOneIsOne ==
    /\ Stopped => Len(fetched) >= 1 /\ fetched[1] = start_page
    /\ (IsSome(run.pages) /\ Val(run.pages) <= 1) =>
          /\ Len(fetched) <= 1
          /\ (Stopped /\ IsNone(failed)) =>
                /\ fetched = <<start_page>>
                /\ Len(csv) = Cardinality(FirstSeenOn(1))
                /\ \A k \in 1..Len(csv) : origin[k] \in FirstSeenOn(1)

\* a run with budget -1 from ?page=3 fetched page 3 alone, wrote one of its
\* two candidates and ended
C21_Witness ==
    /\ pc = "done" /\ run.pages = Some(-1) /\ IsNone(failed)
    /\ fetched = <<3>>
    /\ Len(visited[1]) = 2 /\ Len(csv) = 1

(***************************************************************************)
(* C22: stop-on-empty and pages of duplicates.                             *)
(***************************************************************************)
\* no row of the output comes from the f-th fetched page
NothingWrittenFrom(f) == ~\E k \in 1..Len(origin) : origin[k][1] = f

\* C22: when the loop is past the last candidate of a page that had
\* candidates but gave no row, and the budget is not used up, the next step
\* moves the cursor to the next page and goes on to fetch it, with
\* stop-on-empty enabled or not.
C22_DuplicatesOnlyPageGoesOn ==
    [][(/\ pc = "rows" /\ pos > Len(items) /\ items # <<>>
        /\ NothingWrittenFrom(Len(fetched))
        /\ ~BudgetUsedUp(Len(fetched)))
          => /\ pc' = "fetch"
             /\ page' = page + 1
             /\ csv' = csv]_vars

\* under stop-on-empty a third page was fetched after a second page whose
\* two candidates were both duplicates
C22_Witness ==
    /\ run.until_empty
    /\ Len(fetched) = 3 /\ Len(visited) = 3
    /\ Len(visited[1]) >= 1
    /\ Len(visited[2]) = 2 /\ NothingWrittenFrom(2)

(***************************************************************************)
(* C23: when the loop ends.                                                *)
(***************************************************************************)
Max(a, b) == IF a >= b THEN a ELSE b

\* C23: without a budget and without stop-on-empty the run has not left the
\* loop as long as no fetch has failed, whatever the pages held; with a
\* budget b no more than max(b, 1) pages are ever fetched and the run, once
\* its sinks are open, always leaves the loop.
C23_StopsOnlyByBudgetEmptyOrError ==
    /\ []((IsNone(run.pages) /\ ~run.until_empty /\ IsNone(failed))
            => ~Stopped)
    /\ [](IsSome(run.pages) => Len(fetched) <= Max(Val(run.pages), 1))
    /\ [](( IsSome(run.pages) /\ pc = "fetch") => <>Stopped)

\* no budget, no stop-on-empty: after as many empty pages as the model
\* fetches the run is still about to fetch the next one
C23_Witness ==
    /\ IsNone(run.pages) /\ ~run.until_empty /\ IsNone(failed)
    /\ Len(fetched) = MaxFetches
    /\ \A f \in 1..Len(visited) : visited[f] = <<>>
    /\ pc = "fetch" /\ page = start_page + MaxFetches

(***************************************************************************)
(* C24: the three row counters.                                            *)
(***************************************************************************)
\* C24: between two row writes excel_row = total_written + 2 and
\* xlsx_row0 = total_written + 1, total_written being the number of rows
\* in the CSV file; the worksheet, when there is one, has the same records
\* with the same two formulas as the CSV file, and each formula names the
\* 1-based row of the 0-based worksheet row the record is stored in.
C24_RowCountersAgree ==
    /\ total_written = Len(csv)
    /\ excel_row = total_written + 2
    /\ xlsx_row0 = total_written + 1
    /\ workbook # "none" => Len(sheet) = Len(csv)
    /\ \A k \in 1..Len(sheet) :
          /\ sheet[k].item_id = csv[k].item_id
          /\ sheet[k].detail_url = csv[k].detail_url
          /\ sheet[k].image_preview = csv[k].image_preview
          /\ sheet[k].title_en = csv[k].title_en
          /\ sheet[k].image_preview.row = sheet[k].at + 1
          /\ sheet[k].title_en.row = sheet[k].at + 1

\* two rows are in both sinks, a duplicate was skipped, and the loop is at
\* a further candidate of the page
C24_Witness ==
    /\ pc = "rows" /\ pos <= Len(items)
    /\ workbook = "open"
    /\ total_written = 2 /\ page_skipped = 1
    /\ excel_row = 4 /\ xlsx_row0 = 3
    /\ Len(sheet) = 2 /\ sheet[2].at = 2 /\ sheet[2].title_en.row = 3

(***************************************************************************)
(* C25: GOOD/Viewer.py, the row index.                                     *)
(***************************************************************************)
\* C25: whatever handlers have run, the index is -1 exactly when no rows
\* are loaded and otherwise lies in 0 .. number of rows - 1; next_row at
\* the last row and prev_row at the first leave it as it is and elsewhere
\* move it by one; a load that reads a table sets it to 0, or to -1 when
\* the table is empty, and a load that reads nothing leaves it alone.
C25_IndexInRange ==
    /\ [](/\ vf_idx = -1 <=> vf_rows = <<>>
          /\ vf_rows # <<>> => vf_idx \in 0..(Len(vf_rows) - 1))
    /\ [][/\ vf_pc' = "next_row" =>
                /\ vf_rows' = vf_rows
                /\ vf_idx' = IF vf_idx = Len(vf_rows) - 1 THEN vf_idx
                                                          ELSE vf_idx + 1
          /\ vf_pc' = "prev_row" =>
                /\ vf_rows' = vf_rows
                /\ vf_idx' = IF vf_idx <= 0 THEN vf_idx ELSE vf_idx - 1
          /\ vf_pc' = "load_table" =>
                vf_idx' = IF vf_rows' = <<>> THEN -1 ELSE 0
          /\ vf_pc' = "load_table_none" =>
                vf_rows' = vf_rows /\ vf_idx' = vf_idx
         ]_vars

\* next_row was the last handler to run on a table of one row: the index
\* is still 0
C25_Witness ==
    /\ vf_pc = "next_row"
    /\ Len(vf_rows) = 1
    /\ vf_idx = 0

====
